---- MODULE Spec2Model ----
(***************************************************************************)
(* Verification model of the `deno generate` directive engine:             *)
(*   - quoted_split  (src/cli/tools/generate/quoted_split.rs)              *)
(*   - generate, file_filter_from_file_flags,                              *)
(*     comment_filter_from_generate_flags, collect_generate_commands       *)
(*                   (src/cli/tools/generate/mod.rs)                       *)
(*                                                                         *)
(* A Rust &str is modelled as the sequence of its UTF-8 bytes.  ASCII      *)
(* bytes are written as one-character strings; the two-byte character      *)
(* U+00E9 is the byte pair <<"C3", "A9">>.                                 *)
(***************************************************************************)
EXTENDS Integers, Sequences, FiniteSets, TLC

\* ------------------------------------------------------------------ bounds
MaxLen == 4
MaxModules == 2
MaxComments == 2

\* ------------------------------------------------------------------ bytes
SP == " "
TAB == "\t"
NL == "\n"
CR == "\r"
SQ == "'"
DQ == "\""
LeadByte == "C3"
ContByte == "A9"

Bytes == {"a", "b", SP, TAB, NL, CR, SQ, DQ, LeadByte, ContByte}

\* s[i..] and s[..i] of Rust, with 0-based byte offsets
From(s, i) == SubSeq(s, i + 1, Len(s))
Upto(s, i) == SubSeq(s, 1, i)

\* str::is_char_boundary: offset i does not fall inside a character
IsCharBoundary(s, i) ==
  \/ i = 0
  \/ i = Len(s)
  \/ i < Len(s) /\ s[i + 1] # ContByte

\* the byte strings that are well-formed UTF-8 (what a &str can hold)
ValidUtf8(s) ==
  /\ \A i \in 1..Len(s) : s[i] = LeadByte => (i < Len(s) /\ s[i + 1] = ContByte)
  /\ \A i \in 1..Len(s) : s[i] = ContByte => (i > 1 /\ s[i - 1] = LeadByte)

\* is_space_byte
is_space_byte(c) == c = SP \/ c = TAB \/ c = NL \/ c = CR

\* str::find(quote): byte offset of the first occurrence, or -1 for None
Find(s, c) ==
  IF \E i \in 1..Len(s) : s[i] = c
  THEN (CHOOSE i \in 1..Len(s) : s[i] = c /\ \A j \in 1..(i - 1) : s[j] # c) - 1
  ELSE -1

\* number of characters (not bytes) in s
CharCount(s) == Cardinality({i \in 1..Len(s) : s[i] # ContByte})

\* s.chars().position(is_space_byte): index counted in CHARACTERS of the
\* first whitespace character, or -1 for None
CharsPosition(s) ==
  IF \E i \in 1..Len(s) : is_space_byte(s[i])
  THEN LET b == CHOOSE i \in 1..Len(s) :
                  is_space_byte(s[i]) /\ \A j \in 1..(i - 1) : ~is_space_byte(s[j])
       IN  CharCount(Upto(s, b - 1))
  ELSE -1

Panic(kind) == [outcome |-> kind, f |-> <<>>]

\* the loop of quoted_split, one iteration per unfolding
RECURSIVE SplitLoop(_, _)
SplitLoop(s0, f) ==
  IF Len(s0) = 0 THEN [outcome |-> "Vec", f |-> f]
  ELSE
    LET skip == IF \E i \in 1..Len(s0) : ~is_space_byte(s0[i])
                THEN (CHOOSE i \in 1..Len(s0) :
                        ~is_space_byte(s0[i]) /\ \A j \in 1..(i - 1) : is_space_byte(s0[j])) - 1
                ELSE Len(s0)
        s == From(s0, skip)
    IN
    IF Len(s) = 0 THEN [outcome |-> "Vec", f |-> f]
    ELSE IF s[1] = DQ \/ s[1] = SQ THEN
      LET quote == s[1]
          s1 == From(s, 1)
          i == Find(s1, quote)
      IN IF i = -1 THEN Panic("PanicUnterminated")
         ELSE SplitLoop(From(s1, i + 1), Append(f, Upto(s1, i)))
    ELSE
      LET p == CharsPosition(s)
          i == IF p = -1 THEN Len(s) ELSE p
      IN IF ~IsCharBoundary(s, i) THEN Panic("PanicCharBoundary")
         ELSE SplitLoop(From(s, i), Append(f, Upto(s, i)))

quoted_split(s) == SplitLoop(s, <<>>)

\* ------------------------------------------------------------ test inputs
TestInputs ==
  { <<>>, <<SP>>, <<"a">>, <<SP, "a">>, <<"a", SP>>, <<"a", SP, "b">>,
    <<"a", SP, SP, "b">>, <<"a", TAB, "b">>, <<"a", NL, "b">>,
    <<SQ, "a", SP, "b", SQ>>, <<DQ, "a", SP, "b", DQ>>,
    <<SQ, "a", SP, SQ, DQ, "b", SP, DQ>>,
    <<SQ, "a", SP, DQ, SQ, DQ, SQ, "b", DQ>>,
    <<SQ, "a">> }

NestedQuotesInput == <<SQ, "a", SP, DQ, SQ, DQ, SQ, "b", DQ>>

Strings ==
  {s \in UNION {[1..n -> Bytes] : n \in 0..MaxLen} : ValidUtf8(s)} \cup TestInputs

NotRun == [outcome |-> "NotRun", f |-> <<>>]

\* ------------------------------------------------------- generate: inputs
\* Module specifiers are URLs; Url::to_file_path succeeds on file URLs only.
Paths == {"/a.ts", "/a.test.ts"}
Urls == [scheme : {"file"}, path : Paths] \cup {[scheme |-> "https", path |-> "/a.ts"]}

\* glob::Pattern::matches on the patterns and paths above
Patterns == {"*.ts", "*.test.*"}
GlobMatches(pattern, path) ==
  <<pattern, path>> \in {<<"*.ts", "/a.ts">>, <<"*.ts", "/a.test.ts">>,
                         <<"*.test.*", "/a.test.ts">>}

\* regex::Regex::is_match for a regex that is a literal: the literal occurs
\* somewhere in the text
NoRegex == <<>>
IsMatch(re, text) ==
  \E i \in 0..(Len(text) - Len(re)) : SubSeq(text, i + 1, i + Len(re)) = re

\* One generate comment of a module's source text: the alias it defines (or
\* none) and the byte string that follows the marker.
NoAlias == <<>>
AliasNames == {<<"x">>}
Bodies == { <<"x", SP, "g">>, <<"e", SP, "h">>, <<SQ, "h">> }
CommentLines == [alias_name : {NoAlias} \cup AliasNames, body : Bodies]
Sources == UNION {[1..n -> CommentLines] : n \in 0..MaxComments}
Modules == [specifier : Urls, maybe_source : Sources]
NoModule == [specifier |-> [scheme |-> "none", path |-> ""], maybe_source |-> <<>>]

FileFlagsSet == [include : SUBSET Patterns, ignore : SUBSET Patterns]

\* ---------------------------------------------------- generate: functions
\* path_from_url: url.to_file_path().unwrap()
CanFilePath(url) == url.scheme = "file"
path_from_url(url) == url.path

\* the closure returned by file_filter_from_file_flags (filter_fn is |_| true)
file_filter(file_flags, path) ==
  IF \E pattern \in file_flags.ignore : GlobMatches(pattern, path)
  THEN FALSE
  ELSE \E pattern \in file_flags.include : GlobMatches(pattern, path)

\* the closure returned by comment_filter_from_generate_flags
\* (filter_fn is |_| true)
comment_filter(flags, comment) ==
  LET run == flags.run
      skip == flags.skip
  IN  IF run # NoRegex /\ skip # NoRegex
        THEN IsMatch(run, comment.original) /\ ~IsMatch(skip, comment.original)
      ELSE IF run # NoRegex THEN IsMatch(run, comment.original)
      ELSE IF skip # NoRegex THEN ~IsMatch(skip, comment.original)
      ELSE TRUE

\* parse_comments on one comment: the body is tokenized with quoted_split;
\* the first token is the command, the rest are its arguments.
ParseLine(src, n) ==
  LET toks == quoted_split(src[n].body)
  IN  [line |-> n,
       original |-> (IF src[n].alias_name = NoAlias THEN <<>>
                     ELSE src[n].alias_name \o <<"=">>) \o src[n].body,
       alias_name |-> src[n].alias_name,
       command |-> IF toks.outcome = "Vec" /\ Len(toks.f) > 0 THEN toks.f[1] ELSE <<>>,
       args |-> IF toks.outcome = "Vec" /\ Len(toks.f) > 0 THEN Tail(toks.f) ELSE <<>>]

ParsePanics(src) == \E n \in 1..Len(src) : quoted_split(src[n].body).outcome # "Vec"
parse_comments(src) == [n \in 1..Len(src) |-> ParseLine(src, n)]

\* envs_from
envs_from(m, comment) ==
  [DENO_MODULE |-> m.specifier, DENO_LINE |-> comment.line, DOLLAR |-> "$"]

ResolveCommand_ArgsReversed(aliases, comment) ==
  IF comment.command \in DOMAIN aliases
  THEN LET alias == aliases[comment.command]
       IN  [program |-> alias.command, args |-> comment.args \o alias.args]
  ELSE [program |-> comment.command, args |-> comment.args]

\* the match on aliases.get(comment.command()) in collect_generate_commands
ResolveCommand(aliases, comment) ==
  IF comment.command \in DOMAIN aliases
  THEN LET alias == aliases[comment.command]
       IN  [program |-> alias.command, args |-> alias.args \o comment.args]
  ELSE [program |-> comment.command, args |-> comment.args]

\* aliases.insert(alias, &comment)
AliasInsert(aliases, comment) ==
  [k \in DOMAIN aliases \cup {comment.alias_name} |->
     IF k = comment.alias_name THEN comment ELSE aliases[k]]

EmptyAliases == [k \in {} |-> NoModule]

\* the for loop of collect_generate_commands over comments[n..]
RECURSIVE CollectLoop(_, _, _, _, _, _)
CollectLoop(m, flags, comments, n, aliases, commands) ==
  IF n > Len(comments) THEN commands
  ELSE
    LET comment == comments[n]
    IN  IF comment.alias_name # NoAlias
          THEN CollectLoop(m, flags, comments, n + 1, AliasInsert(aliases, comment), commands)
        ELSE IF ~comment_filter(flags, comment)
          THEN CollectLoop(m, flags, comments, n + 1, aliases, commands)
        ELSE
          LET r == ResolveCommand(aliases, comment)
              command == [program |-> r.program, args |-> r.args,
                          envs |-> envs_from(m, comment)]
          IN  CollectLoop(m, flags, comments, n + 1, aliases,
                          Append(commands, [parsed_comment |-> comment, command |-> command]))

RECURSIVE AllAliases(_, _, _)
AllAliases(comments, n, aliases) ==
  IF n > Len(comments) THEN aliases
  ELSE AllAliases(comments, n + 1,
                  IF comments[n].alias_name # NoAlias
                    THEN AliasInsert(aliases, comments[n]) ELSE aliases)

collect_generate_commands_Lookahead(m, flags) ==
  CollectLoop(m, flags, parse_comments(m.maybe_source), 1,
              AllAliases(parse_comments(m.maybe_source), 1, EmptyAliases), <<>>)

collect_generate_commands(m, flags) ==
  CollectLoop(m, flags, parse_comments(m.maybe_source), 1, EmptyAliases, <<>>)

VARIABLES
  input,              \* quoted_split: the argument s
  result,             \* quoted_split: what the call produced
  generate_flags,     \* generate: GenerateFlags (files, run, skip, verbose, dry_run, trace, source_file)
  graph_len,          \* generate: number of modules graph.modules() yields
  pc,                 \* generate: position in the function body
  status,             \* generate: "running", or how the call ended
  mi,                 \* generate: number of modules taken from graph.modules() so far
  module,             \* generate: the module of the current iteration
  generate_commands,  \* generate: result of collect_generate_commands for it
  ci,                 \* generate: index of the current (parsed_comment, command) pair
  child,              \* child processes spawned and not yet completed
  spawned,            \* every process spawned so far, in spawn order
  output              \* lines written with println!, in order

svars == <<input, result>>
gvars == <<generate_flags, graph_len, pc, status, mi, module, generate_commands,
           ci, child, spawned, output>>
vars == <<input, result, generate_flags, graph_len, pc, status, mi, module,
          generate_commands, ci, child, spawned, output>>

SplitIdle == input = <<>> /\ result = NotRun

GenerateIdle ==
  /\ generate_flags = [files |-> [include |-> {}, ignore |-> {}], run |-> NoRegex,
                       skip |-> NoRegex, verbose |-> FALSE, dry_run |-> FALSE,
                       trace |-> FALSE, source_file |-> [scheme |-> "file", path |-> "/a.ts"]]
  /\ graph_len = 0
  /\ pc = "idle"
  /\ status = "running"
  /\ mi = 0
  /\ module = NoModule
  /\ generate_commands = <<>>
  /\ ci = 0
  /\ child = {}
  /\ spawned = <<>>
  /\ output = <<>>

InitSplit ==
  /\ input \in Strings
  /\ result = NotRun
  /\ GenerateIdle

CallQuotedSplit ==
  /\ result = NotRun
  /\ result' = quoted_split(input)
  /\ UNCHANGED input
  /\ UNCHANGED gvars

NextSplit == CallQuotedSplit

SpecSplit == InitSplit /\ [][NextSplit]_vars

\* ------------------------------------------------------ generate: machine
Init ==
  /\ SplitIdle
  /\ generate_flags \in [files : FileFlagsSet,
                         run : {NoRegex, <<"e">>},
                         skip : {NoRegex, <<"g">>},
                         verbose : BOOLEAN, dry_run : BOOLEAN, trace : BOOLEAN,
                         source_file : {[scheme |-> "file", path |-> "/a.ts"]}]
  /\ graph_len \in 1..MaxModules
  /\ pc = "entry"
  /\ status = "running"
  /\ mi = 0
  /\ module = NoModule
  /\ generate_commands = <<>>
  /\ ci = 0
  /\ child = {}
  /\ spawned = <<>>
  /\ output = <<>>

Finish_KeepsGoing(how) ==
  /\ pc' = pc
  /\ status' = how

\* return from generate (the ? operator, a panic, or the final Ok(()))
Finish(how) ==
  /\ pc' = "done"
  /\ status' = how

\* lines 31-36: the source file itself must pass the file filter
Entry ==
  /\ pc = "entry"
  /\ IF ~file_filter(generate_flags.files, path_from_url(generate_flags.source_file))
       THEN Finish("Ok")
       ELSE pc' = "modules" /\ UNCHANGED status
  /\ UNCHANGED <<input, result, generate_flags, graph_len, mi, module,
                 generate_commands, ci, child, spawned, output>>

\* line 48 and line 84: graph.modules() is exhausted
GraphExhausted ==
  /\ pc = "modules"
  /\ mi = graph_len
  /\ Finish("Ok")
  /\ UNCHANGED <<input, result, generate_flags, graph_len, mi, module,
                 generate_commands, ci, child, spawned, output>>

\* position after the current pair: the next pair, or back to the module loop
\* (module and generate_commands are bindings of one iteration of the module loop)
Advance ==
  IF ci + 1 > Len(generate_commands)
    THEN pc' = "modules" /\ ci' = 0 /\ module' = NoModule /\ generate_commands' = <<>>
    ELSE pc' = "commands" /\ ci' = ci + 1 /\ UNCHANGED <<module, generate_commands>>

\* lines 48-56: the next module of graph.modules()
NextModule ==
  /\ pc = "modules"
  /\ mi < graph_len
  /\ \E m \in Modules :
       /\ mi' = mi + 1
       /\ IF ~CanFilePath(m.specifier)
            THEN Finish("PanicFilePath") /\ module' = m /\ UNCHANGED <<generate_commands, ci>>
          ELSE IF ~file_filter(generate_flags.files, path_from_url(m.specifier))
            THEN UNCHANGED <<pc, status, module, generate_commands, ci>>
          ELSE IF ParsePanics(m.maybe_source)
            THEN Finish("PanicParse") /\ module' = m /\ UNCHANGED <<generate_commands, ci>>
          ELSE LET cmds == collect_generate_commands(m, generate_flags)
               IN  /\ IF Len(cmds) = 0
                        THEN UNCHANGED <<pc, module, generate_commands, ci>>
                        ELSE /\ pc' = "commands"
                             /\ module' = m
                             /\ generate_commands' = cmds
                             /\ ci' = 1
                   /\ UNCHANGED status
  /\ UNCHANGED <<input, result, generate_flags, graph_len, child, spawned, output>>

ProcessId == [module |-> mi, line |-> generate_commands[ci].parsed_comment.line]

Println(kind) == [kind |-> kind, module |-> mi,
                  line |-> generate_commands[ci].parsed_comment.line]

\* lines 58-64: the verbose notice
VerboseNotice ==
  IF generate_flags.verbose THEN Append(output, Println("Running")) ELSE output

Spawn_NoWait ==
  \E launched \in BOOLEAN :
    IF launched
      THEN /\ child' = child \cup {ProcessId}
           /\ spawned' = Append(spawned, ProcessId)
           /\ Advance
           /\ UNCHANGED status
      ELSE /\ Finish("Err")
           /\ UNCHANGED <<ci, child, spawned, module, generate_commands>>

\* line 70: command.output()? launches the child and blocks until it exits;
\* a launch failure is returned to the caller of generate
Spawn ==
  \E launched \in BOOLEAN :
    IF launched
      THEN /\ child' = child \cup {ProcessId}
           /\ spawned' = Append(spawned, ProcessId)
           /\ pc' = "child"
           /\ UNCHANGED <<status, ci, module, generate_commands>>
      ELSE /\ Finish("Err")
           /\ UNCHANGED <<ci, child, spawned, module, generate_commands>>

RunCommand_IgnoresDryRun ==
  /\ pc = "commands"
  /\ ci <= Len(generate_commands)
  /\ output' = VerboseNotice
  /\ Spawn
  /\ UNCHANGED <<input, result, generate_flags, graph_len, mi>>

\* lines 57-70: one (parsed_comment, command) pair, up to the spawn
RunCommand ==
  /\ pc = "commands"
  /\ ci <= Len(generate_commands)
  /\ output' = VerboseNotice
  /\ IF generate_flags.dry_run
       THEN Advance /\ UNCHANGED <<status, child, spawned>>
       ELSE Spawn
  /\ UNCHANGED <<input, result, generate_flags, graph_len, mi>>

PrintsOutput_VerboseOnly(verbose, trace) == verbose

\* line 71
PrintsOutput(verbose, trace) == verbose \/ trace

\* lines 70-80: command.output() returns once the child has exited
ChildExits ==
  /\ pc = "child"
  /\ child' = child \ {ProcessId}
  /\ LET out1 == IF PrintsOutput(generate_flags.verbose, generate_flags.trace)
                   THEN output \o <<Println("stdout"), Println("stderr")>> ELSE output
         out2 == IF generate_flags.trace
                   THEN Append(out1, Println("exit status")) ELSE out1
     IN  output' = out2
  /\ Advance
  /\ UNCHANGED <<input, result, generate_flags, graph_len, status, mi, spawned>>

Next == Entry \/ GraphExhausted \/ NextModule \/ RunCommand \/ ChildExits

Spec == Init /\ [][Next]_vars


\* ------------------------------------------------------------------ claims
Range(seq) == {seq[i] : i \in 1..Len(seq)}
Completed == Range(spawned) \ child
Written(kind, p) == [kind |-> kind, module |-> p.module, line |-> p.line] \in Range(output)

\* C1: the path filter accepts a path iff the path matches no ignore pattern
\* and (the include set is empty or the path matches an include pattern).
C1_PathFilterContract ==
  pc # "entry" => \A path \in Paths :
    file_filter(generate_flags.files, path)
      <=> ( /\ ~\E g \in generate_flags.files.ignore : GlobMatches(g, path)
            /\ \/ generate_flags.files.include = {}
               \/ \E g \in generate_flags.files.include : GlobMatches(g, path) )

C3_DryRunSpawnsNothing ==
  generate_flags.dry_run => (spawned = <<>> /\ child = {})

C3_Witness ==
  /\ generate_flags.dry_run /\ generate_flags.verbose
  /\ pc = "done" /\ status = "Ok"
  /\ Len(output) >= 2
  /\ spawned = <<>>

\* the alias definitions of the current module that precede line n and
\* define the name
EarlierDefs(name, n) ==
  {d \in 1..(n - 1) : module.maybe_source[d].alias_name = name}
LaterDefs(name, n) ==
  {d \in (n + 1)..Len(module.maybe_source) : module.maybe_source[d].alias_name = name}

\* C4: a directive whose command is the name of a registered alias gets the
\* alias's command as program, unresolved, and the alias's args followed by
\* its own args as arguments.
C4_AliasExpansionShape ==
  \A k \in 1..Len(generate_commands) :
    LET c == generate_commands[k].parsed_comment
        cmd == generate_commands[k].command
    IN  EarlierDefs(c.command, c.line) # {} =>
          \E d \in EarlierDefs(c.command, c.line) :
            LET alias == ParseLine(module.maybe_source, d)
            IN  /\ cmd.program = alias.command
                /\ cmd.args = alias.args \o c.args

C4_Witness ==
  \E k \in 1..Len(generate_commands) :
    LET c == generate_commands[k].parsed_comment
        cmd == generate_commands[k].command
    IN  /\ c.command = <<"x">>
        /\ EarlierDefs(c.command, c.line) # {}
        /\ cmd.program = <<"e">>
        /\ cmd.args = << <<"h">>, <<"g">> >>

Before(p, q) == p.module < q.module \/ (p.module = q.module /\ p.line < q.line)

\* C6: processes are spawned in module order and, within a module, in source
\* order, and a process is spawned only when every process spawned before it
\* has completed.
C6_SequentialSpawn ==
  /\ \A i, j \in 1..Len(spawned) : i < j => Before(spawned[i], spawned[j])
  /\ Cardinality(child) <= 1
  /\ child \subseteq (IF spawned = <<>> THEN {} ELSE {spawned[Len(spawned)]})

C6_Witness ==
  /\ Len(spawned) >= 3
  /\ spawned[1].module = 1 /\ spawned[2].module = 1 /\ spawned[3].module = 2
  /\ child = {spawned[3]}

RECURSIVE ScanTokens(_)
ScanTokens(s) ==
  IF Len(s) = 0 THEN [closed |-> TRUE, tokens |-> <<>>]
  ELSE IF s[1] \in {SP, TAB, NL, CR} THEN ScanTokens(Tail(s))
  ELSE IF s[1] \in {SQ, DQ} THEN
    LET close == {i \in 2..Len(s) : s[i] = s[1]}
    IN IF close = {} THEN [closed |-> FALSE, tokens |-> <<>>]
       ELSE LET e == CHOOSE i \in close : \A j \in close : i <= j
                rest == ScanTokens(SubSeq(s, e + 1, Len(s)))
            IN [closed |-> rest.closed,
                tokens |-> IF rest.closed THEN <<SubSeq(s, 2, e - 1)>> \o rest.tokens ELSE <<>>]
  ELSE
    LET ws == {i \in 1..Len(s) : s[i] \in {SP, TAB, NL, CR}}
        e == IF ws = {} THEN Len(s) + 1 ELSE CHOOSE i \in ws : \A j \in ws : i <= j
        rest == ScanTokens(SubSeq(s, e, Len(s)))
    IN [closed |-> rest.closed,
        tokens |-> IF rest.closed THEN <<SubSeq(s, 1, e - 1)>> \o rest.tokens ELSE <<>>]

\* C8: when every opened quote of the input is closed, quoted_split returns
\* exactly the tokens of the specified left-to-right scan, in order.
C8_SplitMatchesScan ==
  (result # NotRun /\ ScanTokens(input).closed)
    => result = [outcome |-> "Vec", f |-> ScanTokens(input).tokens]

\* C9: when a token opens a quote that is never closed, quoted_split fails
\* with an UnterminatedQuote error result (an Err value the caller can test).
C9_UnterminatedIsErr ==
  (result # NotRun /\ ~ScanTokens(input).closed)
    => result.outcome = "ErrUnterminatedQuote"

\* C10: on the input  'a "'"'b"  quoted_split returns the two tokens
\* <a, space, double-quote> and <b>.
C10_NestedQuotes ==
  (result # NotRun /\ input = NestedQuotesInput)
    => result = [outcome |-> "Vec", f |-> << <<"a", SP, DQ>>, <<"b">> >>]

====
